---------------------------- MODULE Spec2Model ----------------------------
(***************************************************************************)
(* A model of the ppt2pdf-plus scripts: CJK font resolution, watermark     *)
(* rendering (centered, tiled, image placeholder), page composition and    *)
(* the three command-line entry points.                                    *)
(*                                                                         *)
(* Lengths are kept in thousandths of a point (Milli) so that the          *)
(* non-integer page sizes a PDF media box yields keep their fraction and   *)
(* int() is a real truncation.                                             *)
(***************************************************************************)
EXTENDS Integers, Sequences, FiniteSets, TLC

VARIABLES
    \* ---- the process and its host
    platform,     \* sys.platform
    environ,      \* os.environ.get("PPT2PDF_CJK_FONT")
    registered,   \* pdfmetrics registry: the PPT2PDFCJK_ names registered, each with the file it was loaded from
    \* ---- one call of _font_for_text / _resolve_cjk_font
    fpc,          \* position inside _resolve_cjk_font
    fcall,        \* the call's arguments
    cand_i,       \* index into _candidate_font_paths()
    warnings,     \* the local list `warnings`
    consulted,    \* history: the sources consulted by this call, in order
    fresult,      \* how the call ended
    ncalls,       \* calls made so far in this process
    stderr,       \* the diagnostic stream
    \* ---- create_tiled_watermark
    tpc, tile, drawn,
    \* ---- add_watermark_to_pdf
    mpc, merge,
    \* ---- the command-line entry points
    pc, args, disk, proc

fontVars == <<platform, environ, registered, fpc, fcall,
              cand_i, warnings, consulted, fresult, ncalls>>
tileVars == <<tpc, tile, drawn>>
mergeVars == <<mpc, merge>>
cliVars == <<pc, args, disk, proc>>
vars == <<fontVars, stderr, tileVars, mergeVars, cliVars>>

None == "None"

\* ------------------------------------------------------------------ bounds
MaxCalls == 2
MaxFontSize == 200
MaxPages == 3
MaxWatermarkPages == 2

\* ------------------------------------------------------- sample inputs
\* watermark texts, as sequences of code points: "", "Hi", "H" + U+4E2D,
\* U+AC00 (Hangul), U+3042 (Hiragana), U+00E9 U+FF21 (neither)
Texts == { <<>>, <<72, 105>>, <<72, 20013>>, <<44032>>, <<12354>>, <<233, 65313>> }

\* ------------------------------------------------------------------ paths
\* A path is its parent directory, the words of its stem (the stem split at
\* spaces) and its suffix.
P(dir, words, ext) == [dir |-> dir, words |-> words, ext |-> ext]

\* No path: an option not given, an unset variable, a scan that met nothing.
NoPath == P("", <<>>, "")

DEFAULT_CJK_FONT == P("/Users/mac/Library/Fonts", <<"NotoSansCJKsc-Regular">>, ".otf")

DarwinCandidates ==
    << P("/System/Library/Fonts", <<"PingFang">>, ".ttc"),
       P("/System/Library/Fonts", <<"STHeiti", "Medium">>, ".ttc"),
       P("/System/Library/Fonts/Supplemental", <<"Heiti", "TC">>, ".ttc"),
       P("/Library/Fonts", <<"NotoSansCJKsc-Regular">>, ".otf"),
       P("/Library/Fonts", <<"NotoSansCJK-Regular">>, ".ttc"),
       P("~/Library/Fonts", <<"NotoSansCJKsc-Regular">>, ".otf") >>

WinCandidates ==
    << P("C:/Windows/Fonts", <<"msyh">>, ".ttc"),
       P("C:/Windows/Fonts", <<"msyh">>, ".ttf"),
       P("C:/Windows/Fonts", <<"simsun">>, ".ttc"),
       P("C:/Windows/Fonts", <<"simhei">>, ".ttf"),
       P("C:/Windows/Fonts", <<"msjh">>, ".ttc"),
       P("C:/Windows/Fonts", <<"malgun">>, ".ttf") >>

LinuxCandidates ==
    << P("/usr/share/fonts/opentype/noto", <<"NotoSansCJKsc-Regular">>, ".otf"),
       P("/usr/share/fonts/truetype/wqy", <<"wqy-microhei">>, ".ttc"),
       P("/usr/share/fonts/opentype/noto", <<"NotoSansCJK-Regular">>, ".ttc"),
       P("/usr/share/fonts/truetype/noto", <<"NotoSansCJK-Regular">>, ".ttc"),
       P("/usr/share/fonts/opentype/source-han-sans", <<"SourceHanSansSC-Regular">>, ".otf"),
       P("/usr/share/fonts/truetype/arphic", <<"uming">>, ".ttc") >>

Platforms == {"darwin", "win32", "linux"}

_candidate_font_paths(plat) ==
    <<DEFAULT_CJK_FONT>> \o
    ( IF plat = "darwin" THEN DarwinCandidates
      ELSE IF plat = "win32" THEN WinCandidates
      ELSE LinuxCandidates )

\* Font files a user names with --font-path or PPT2PDF_CJK_FONT.  The two
\* "My Font" files are different files whose stems differ only by a space
\* against an underscore.
UserFonts ==
    { P("/home/u/fonts", <<"My", "Font">>, ".ttf"),
      P("/home/u/other", <<"My_Font">>, ".ttf") }

\* Files the directory walk can return: they carry a hinted name and one of
\* the font suffixes, and lie at most two levels below a font directory.
ScanHits(plat) ==
    IF plat = "darwin" THEN { P("/Library/Fonts", <<"Hiragino", "Sans", "GB">>, ".ttc") }
    ELSE IF plat = "win32" THEN { P("C:/Windows/Fonts", <<"SimSun-ExtB">>, ".ttf") }
    ELSE { P("/usr/share/fonts/opentype/noto", <<"NotoSansCJKsc-Regular">>, ".otf") }


\* ------------------------------------------------------ _text_has_cjk
_text_has_cjk(text) ==
    \E i \in 1..Len(text) :
        LET code == text[i] IN
            \/ 19968 <= code /\ code <= 40959      \* 0x4E00..0x9FFF
            \/ 13312 <= code /\ code <= 19903      \* 0x3400..0x4DBF
            \/ 131072 <= code /\ code <= 173791    \* 0x20000..0x2A6DF
            \/ 173824 <= code /\ code <= 177983    \* 0x2A700..0x2B73F
            \/ 177984 <= code /\ code <= 178207    \* 0x2B740..0x2B81F
            \/ 178208 <= code /\ code <= 183983    \* 0x2B820..0x2CEAF
            \/ 63744 <= code /\ code <= 64255      \* 0xF900..0xFAFF
            \/ 194560 <= code /\ code <= 195103    \* 0x2F800..0x2FA1F
            \/ 12352 <= code /\ code <= 12447      \* 0x3040..0x309F
            \/ 12448 <= code /\ code <= 12543      \* 0x30A0..0x30FF
            \/ 12784 <= code /\ code <= 12799      \* 0x31F0..0x31FF
            \/ 44032 <= code /\ code <= 55215      \* 0xAC00..0xD7AF

\* ------------------------------------------------------ _register_font
RECURSIVE JoinUnderscore(_)
JoinUnderscore(words) ==
    IF Len(words) = 0 THEN ""
    ELSE IF Len(words) = 1 THEN words[1]
    ELSE words[1] \o "_" \o JoinUnderscore(Tail(words))

\* f"PPT2PDFCJK_{font_path.stem}".replace(" ", "_")
FontName(path) == "PPT2PDFCJK_" \o JoinUnderscore(path.words)

\* The name when it is already registered (the file is not opened then), the
\* name after loading a good file, None when TTFont raises.
_register_font(path, status, reg) ==
    LET font_name == FontName(path) IN
        IF font_name \in DOMAIN reg THEN [name |-> font_name, reg |-> reg]
        ELSE IF status = "good"
             THEN [name |-> font_name, reg |-> reg @@ (font_name :> path)]
             ELSE [name |-> None, reg |-> reg]

\* --------------------------------------------------- _resolve_cjk_font
FontStatus == {"missing", "bad", "good"}

\* What the host answers when a font path is probed: the file is missing
\* (exists() is false), it exists and TTFont cannot load it, or it loads.
\* The file system is outside the program and is read afresh by every call.

Pending == [kind |-> "pending", font |-> None, msg |-> <<>>]
Return(font_name) == [kind |-> "return", font |-> font_name, msg |-> <<>>]
Raise(msg) == [kind |-> "raise", font |-> None, msg |-> msg]

\* Mutant: the environment font is looked at before the override.
EntryPointEnvFirst(override) == "env"

\* `if font_path_override:` decides where resolution starts.
EntryPoint(override) == IF override # NoPath THEN "override" ELSE "env"

\* cjk_font or "Helvetica"
OrHelvetica(r) ==
    IF r.kind = "return" /\ r.font = None THEN Return("Helvetica") ELSE r

Guidance == "Install a CJK font and provide it via --font-path or set PPT2PDF_CJK_FONT."

\* Mutant: the missing font is passed over in silence.
NoFontOutcomeSilent(require_cjk, warns) == Return(None)

\* The end of _resolve_cjk_font, when no source gave a font.
NoFontOutcome(require_cjk, warns) ==
    IF require_cjk
    THEN Raise(<<"No CJK font found to render the watermark text.">> \o warns \o <<Guidance>>)
    ELSE Return(None)

\* What the warnings loop prints when resolution ends without a font.
NoFontStderr(require_cjk, warns) ==
    IF require_cjk THEN <<>>
    ELSE [i \in 1..Len(warns) |-> [level |-> "Warning", text |-> warns[i]]]

\* An entry of the history `consulted`.  The probe's answer is kept for the
\* override and the environment font, where the code's message depends on it.
Unrecorded == "-"
Consult(src, path, s, name) == [src |-> src, path |-> path, status |-> s, name |-> name]

\* A call begins: _font_for_text(text, font_path) or, from
\* create_image_watermark, _resolve_cjk_font().
BeginFontCall(fn, text, override) ==
    /\ fcall' = [fn |-> fn, text |-> text, override |-> override,
                 require_cjk |-> IF fn = "_font_for_text" THEN _text_has_cjk(text) ELSE FALSE]
    /\ fpc' = EntryPoint(override)
    /\ cand_i' = 1
    /\ warnings' = <<>>
    /\ consulted' = <<>>
    /\ fresult' = Pending
    /\ ncalls' = ncalls + 1
    /\ UNCHANGED <<platform, environ, registered>>

\* lines 172-185: the explicit override is the only source.
TryOverride ==
    /\ fpc = "override"
    /\ \E s \in FontStatus :
        /\ LET r == _register_font(fcall.override, s, registered) IN
            /\ consulted' = Append(consulted,
                    Consult("override", fcall.override, s, IF s = "missing" THEN None ELSE r.name))
            /\ IF s = "missing"
               THEN /\ fresult' = Raise(<<"CJK font path not found">>)
                    /\ UNCHANGED registered
               ELSE /\ registered' = r.reg
                    /\ fresult' = IF r.name = None
                                  THEN Raise(<<"Failed to load CJK font">>)
                                  ELSE OrHelvetica(Return(r.name))
    /\ fpc' = "done"
    /\ UNCHANGED <<platform, environ, fcall, cand_i, warnings, ncalls, stderr>>
    /\ UNCHANGED <<tileVars, mergeVars, cliVars>>

\* lines 187-200: the environment font, when the variable is set.
TryEnv ==
    /\ fpc = "env"
    /\ IF environ = NoPath
       THEN /\ fpc' = "cand"
            /\ UNCHANGED <<registered, consulted, warnings, fresult>>
       ELSE \E s \in FontStatus :
            /\ LET r == _register_font(environ, s, registered)
                   name == IF s = "missing" THEN None ELSE r.name IN
                /\ consulted' = Append(consulted, Consult("env", environ, s, name))
                /\ registered' = IF s = "missing" THEN registered ELSE r.reg
                /\ IF name # None
                   THEN /\ fresult' = OrHelvetica(Return(name))
                        /\ fpc' = "done"
                        /\ UNCHANGED warnings
                   ELSE /\ warnings' = Append(warnings,
                                IF s = "missing"
                                THEN "CJK font path in PPT2PDF_CJK_FONT was not found."
                                ELSE "Failed to load CJK font set in PPT2PDF_CJK_FONT.")
                        /\ fpc' = "cand"
                        /\ UNCHANGED fresult
    /\ UNCHANGED <<platform, environ, fcall, cand_i, ncalls, stderr>>
    /\ UNCHANGED <<tileVars, mergeVars, cliVars>>

\* lines 202-206: one turn of the loop over the built-in candidates.
TryCandidate ==
    /\ fpc = "cand"
    /\ LET cands == _candidate_font_paths(platform)
           candidate == cands[cand_i] IN
       \E s \in FontStatus :
        /\ LET r == _register_font(candidate, s, registered)
               name == IF s = "missing" THEN None ELSE r.name IN
            /\ consulted' = Append(consulted, Consult("candidate", candidate, Unrecorded, name))
            /\ registered' = IF s = "missing" THEN registered ELSE r.reg
            /\ IF name # None
               THEN /\ fresult' = OrHelvetica(Return(name))
                    /\ fpc' = "done"
                    /\ UNCHANGED cand_i
               ELSE /\ UNCHANGED fresult
                    /\ IF cand_i < Len(cands)
                       THEN cand_i' = cand_i + 1 /\ fpc' = "cand"
                       ELSE UNCHANGED cand_i /\ fpc' = "scan"
    /\ UNCHANGED <<platform, environ, fcall, warnings, ncalls, stderr>>
    /\ UNCHANGED <<tileVars, mergeVars, cliVars>>

\* lines 208-230: the directory scan, and the end of the function.
ScanAndFinish ==
    /\ fpc = "scan"
    /\ \E found \in {NoPath} \cup ScanHits(platform) :
        /\ IF found = NoPath
           THEN /\ consulted' = Append(consulted, Consult("scan", NoPath, Unrecorded, None))
                /\ fresult' = OrHelvetica(NoFontOutcome(fcall.require_cjk, warnings))
                /\ stderr' = stderr \o NoFontStderr(fcall.require_cjk, warnings)
                /\ UNCHANGED registered
           ELSE \E s \in {"bad", "good"} :
                /\ LET r == _register_font(found, s, registered) IN
                    /\ consulted' = Append(consulted, Consult("scan", found, Unrecorded, r.name))
                    /\ registered' = r.reg
                    /\ IF r.name # None
                       THEN /\ fresult' = OrHelvetica(Return(r.name))
                            /\ UNCHANGED stderr
                       ELSE /\ fresult' = OrHelvetica(NoFontOutcome(fcall.require_cjk, warnings))
                            /\ stderr' = stderr \o NoFontStderr(fcall.require_cjk, warnings)
    /\ fpc' = "done"
    /\ UNCHANGED <<platform, environ, fcall, cand_i, warnings, ncalls>>
    /\ UNCHANGED <<tileVars, mergeVars, cliVars>>

FontInit ==
    /\ platform \in Platforms
    /\ environ \in {NoPath} \cup UserFonts
    /\ registered = << >>
    /\ fpc = "idle"
    /\ fcall = [fn |-> None, text |-> <<>>, override |-> NoPath, require_cjk |-> FALSE]
    /\ cand_i = 1
    /\ warnings = <<>>
    /\ consulted = <<>>
    /\ fresult = Pending
    /\ ncalls = 0
    /\ stderr = <<>>


\* A client of the module calls _font_for_text, any number of times in one
\* process (the registry is process-wide).
FontForText ==
    /\ fpc \in {"idle", "done"}
    /\ pc = "lib"
    /\ ncalls < MaxCalls
    /\ \E text \in Texts, override \in {NoPath} \cup UserFonts :
        BeginFontCall("_font_for_text", text, override)
    /\ UNCHANGED <<stderr, tileVars, mergeVars, cliVars>>


\* ------------------------------------------------ font resolution: claims
\* The sources a call has to go through, in the order the claim gives.
ExpectedSources ==
    LET cands == _candidate_font_paths(platform) IN
    IF fcall.override # NoPath
    THEN << [src |-> "override", path |-> fcall.override] >>
    ELSE (IF environ # NoPath THEN << [src |-> "env", path |-> environ] >> ELSE << >>)
         \o [i \in 1..Len(cands) |-> [src |-> "candidate", path |-> cands[i]]]
         \o << [src |-> "scan", path |-> NoPath] >>

NoSourceGaveAFont == \A i \in 1..Len(consulted) : consulted[i].name = None

\* C2: the sources are consulted in the fixed order override, environment
\* font, built-in candidates in list order, directory scan; a source is
\* consulted only after every earlier one failed; the call returns the font
\* of the first source that registers; a failing environment font leaves one
\* warning and resolution goes on; with an override nothing else is consulted
\* and the call returns that font or raises.
C2_FixedOrderFirstSuccessWins ==
    LET n == Len(consulted)
        exp == ExpectedSources IN
    /\ n <= Len(exp)
    /\ \A i \in 1..n :
        /\ consulted[i].src = exp[i].src
        /\ exp[i].src # "scan" => consulted[i].path = exp[i].path
        /\ i < n => consulted[i].name = None
        /\ consulted[i].name # None =>
            /\ consulted[i].status # "missing"
            /\ consulted[i].name = FontName(consulted[i].path)
            /\ fpc = "done"
            /\ fresult = Return(consulted[i].name)
        /\ (consulted[i].src = "env" /\ consulted[i].name = None) =>
            /\ Len(warnings) = 1
            /\ fresult.kind # "raise" \/ n = Len(exp)
            /\ fpc = "done" => n > i
    /\ (fpc = "done" /\ NoSourceGaveAFont) =>
        /\ n = Len(exp)
        /\ fresult.kind = "raise" \/ fresult = Return("Helvetica")
    /\ fcall.override # NoPath =>
        /\ \A i \in 1..n : consulted[i].src = "override"
        /\ fpc = "done" =>
            /\ n = 1
            /\ fresult.kind = "raise" \/ fresult = Return(FontName(fcall.override))

\* A call in which the environment font failed, candidates failed, and a
\* later source gave the font.
C2_Witness ==
    /\ fpc = "done"
    /\ Len(consulted) >= 3
    /\ consulted[1].src = "env" /\ consulted[1].name = None
    /\ fresult.kind = "return" /\ fresult.font # "Helvetica"

\* The Unicode blocks the detector is specified over: CJK Unified
\* Ideographs, Extensions A to E, Compatibility Ideographs and their
\* Supplement, Hiragana, Katakana, Katakana Phonetic Extensions, Hangul
\* Syllables (first and last code point of each).
CjkBlocks ==
    { <<19968, 40959>>, <<13312, 19903>>, <<131072, 173791>>, <<173824, 177983>>,
      <<177984, 178207>>, <<178208, 183983>>, <<63744, 64255>>, <<194560, 195103>>,
      <<12352, 12447>>, <<12448, 12543>>, <<12784, 12799>>, <<44032, 55215>> }

ContainsCjkKanaHangul(text) ==
    \E i \in 1..Len(text) : \E b \in CjkBlocks : b[1] <= text[i] /\ text[i] <= b[2]

EnvWarnings ==
    IF environ = NoPath \/ Len(consulted) = 0 \/ consulted[1].src # "env" THEN << >>
    ELSE IF consulted[1].status = "missing"
         THEN << "CJK font path in PPT2PDF_CJK_FONT was not found." >>
         ELSE << "Failed to load CJK font set in PPT2PDF_CJK_FONT." >>

\* C3: without an explicit font path, _font_for_text raises exactly when the
\* text has a CJK/Kana/Hangul character and neither the environment font nor
\* a candidate nor the scan gave a font; the message then carries the
\* environment-font warnings and the install guidance.  A text without such
\* characters never raises, and gets Helvetica when nothing was found.
C3_RaisesIffCjkAndNoFont ==
    (fpc = "done" /\ fcall.fn = "_font_for_text" /\ fcall.override = NoPath) =>
        LET cjk == ContainsCjkKanaHangul(fcall.text) IN
        /\ fresult.kind = "raise" <=>
              (cjk /\ NoSourceGaveAFont /\ Len(consulted) = Len(ExpectedSources))
        /\ fresult.kind = "raise" =>
              fresult.msg = <<"No CJK font found to render the watermark text.">>
                            \o EnvWarnings \o <<Guidance>>
        /\ ~cjk =>
              /\ fresult.kind = "return"
              /\ NoSourceGaveAFont => fresult.font = "Helvetica"

\* A CJK text for which the environment font fails and nothing else is found.
C3_Witness ==
    /\ fpc = "done" /\ fcall.fn = "_font_for_text" /\ fcall.override = NoPath
    /\ ContainsCjkKanaHangul(fcall.text)
    /\ fresult.kind = "raise"
    /\ Len(fresult.msg) = 3

\* C4: a call with an explicit path that exists and loads returns a
\* registered name whose font file is that path, whatever was resolved
\* before in the process.
C4_ExplicitPathIsTheFontFile ==
    (fpc = "done" /\ fcall.override # NoPath /\ consulted[1].status = "good") =>
        /\ fresult.kind = "return"
        /\ fresult.font \in DOMAIN registered
        /\ registered[fresult.font] = fcall.override

\* ------------------------------------------- create_tiled_watermark
_DEFAULT_TILE_SPACING_X_MULT == 6
_DEFAULT_TILE_SPACING_Y_MULT == 3
_DEFAULT_TILE_SPACING_X_MIN == 180
_DEFAULT_TILE_SPACING_Y_MIN == 120
_DEFAULT_TILE_SPACING_X_MAX == 600
_DEFAULT_TILE_SPACING_Y_MAX == 400

Min(a, b) == IF a <= b THEN a ELSE b
Max(a, b) == IF a >= b THEN a ELSE b

\* Mutant: the upper limit is forgotten.
ClampNoUpper(value, min_value, max_value) == Max(min_value, value)

\* max(min_value, min(max_value, int(value))); value is an integer here.
_clamp(value, min_value, max_value) == Max(min_value, Min(max_value, value))

\* An optional integer argument: << >> is None, <<v>> is the value v.
IsNone(opt) == opt = << >>

\* lines 295-306
DefaultSpacingX(font_size, spacing_x) ==
    IF IsNone(spacing_x)
    THEN _clamp(font_size * _DEFAULT_TILE_SPACING_X_MULT,
                _DEFAULT_TILE_SPACING_X_MIN, _DEFAULT_TILE_SPACING_X_MAX)
    ELSE spacing_x[1]

DefaultSpacingY(font_size, spacing_y) ==
    IF IsNone(spacing_y)
    THEN _clamp(font_size * _DEFAULT_TILE_SPACING_Y_MULT,
                _DEFAULT_TILE_SPACING_Y_MIN, _DEFAULT_TILE_SPACING_Y_MAX)
    ELSE spacing_y[1]

\* Page sizes <<width, height>> in thousandths of a point: US Letter (the
\* default page_size), A4 as a media box gives it, a 16:9 slide.
Letter == <<612000, 792000>>
A4 == <<595276, 841890>>
Slide == <<720000, 405000>>
PageSizes == {Letter, A4, Slide}

\* int(v) of a non-negative length
IntPart(v) == v \div 1000

\* Whether Python's range(start, stop, step), step # 0, still yields v.
InRange(v, stop, step) == IF step > 0 THEN v < stop ELSE v > stop

FontSizes == (0 - 2)..MaxFontSize
SpacingsX == { << >>, <<0>>, <<0 - 100>>, <<85>> }
SpacingsY == { << >>, <<0>>, <<421>> }

TileInit ==
    /\ tpc = "idle"
    /\ tile = [page_size |-> Letter, font_size |-> 40, given_x |-> << >>, given_y |-> << >>,
               spacing_x |-> 0, spacing_y |-> 0, x |-> 0, y |-> 0]
    /\ drawn = << >>

\* lines 294-309: the spacing defaults, once the canvas and the font are set
BeginTiled(page_size, font_size, spacing_x, spacing_y) ==
    /\ tile' = [page_size |-> page_size, font_size |-> font_size,
                given_x |-> spacing_x, given_y |-> spacing_y,
                spacing_x |-> DefaultSpacingX(font_size, spacing_x),
                spacing_y |-> DefaultSpacingY(font_size, spacing_y),
                x |-> 0, y |-> 0]
    /\ tpc' = "outer"
    /\ drawn' = << >>

\* A client of the module calls create_tiled_watermark.
CreateTiled ==
    /\ tpc = "idle"
    /\ pc = "lib"
    /\ \E page_size \in PageSizes, font_size \in FontSizes,
          spacing_x \in SpacingsX, spacing_y \in SpacingsY :
        BeginTiled(page_size, font_size, spacing_x, spacing_y)
    /\ UNCHANGED <<fontVars, stderr, mergeVars, cliVars>>

\* line 310: for y in range(0, int(height), spacing_y)
OuterStep ==
    /\ tpc = "outer"
    /\ IF tile.spacing_y = 0
       THEN tpc' = "raised" /\ UNCHANGED tile       \* ValueError: range() arg 3
       ELSE IF InRange(tile.y, IntPart(tile.page_size[2]), tile.spacing_y)
            THEN tpc' = "inner" /\ tile' = [tile EXCEPT !.x = 0]
            ELSE tpc' = "save" /\ UNCHANGED tile
    /\ UNCHANGED <<drawn, fontVars, stderr, mergeVars, cliVars>>

\* lines 311-316: for x in range(0, int(width), spacing_x): one tile, drawn
\* at the origin after translate(x, y) and rotate(rotation).
InnerStep ==
    /\ tpc = "inner"
    /\ IF tile.spacing_x = 0
       THEN tpc' = "raised" /\ UNCHANGED <<tile, drawn>>
       ELSE IF InRange(tile.x, IntPart(tile.page_size[1]), tile.spacing_x)
            THEN /\ drawn' = Append(drawn, [at |-> <<tile.x, tile.y>>,
                                            pivot |-> <<tile.x, tile.y>>])
                 /\ tile' = [tile EXCEPT !.x = tile.x + tile.spacing_x]
                 /\ tpc' = "inner"
            ELSE /\ tile' = [tile EXCEPT !.y = tile.y + tile.spacing_y]
                 /\ tpc' = "outer"
                 /\ UNCHANGED drawn
    /\ UNCHANGED <<fontVars, stderr, mergeVars, cliVars>>

\* line 318: c.save()
SaveTiled ==
    /\ tpc = "save"
    /\ tpc' = "done"
    /\ UNCHANGED <<tile, drawn, fontVars, stderr, mergeVars, cliVars>>

\* C9: with no spacing supplied, spacing_x = min(600, max(180, 6*font_size))
\* and spacing_y = min(400, max(120, 3*font_size)), so within [180,600] and
\* [120,400], 240/120 at font size 40 and 600/400 at 200; a supplied spacing
\* is used as it is, each axis on its own.
C9_DefaultSpacingClamped ==
    tpc # "idle" =>
        /\ IsNone(tile.given_x) =>
            /\ tile.spacing_x = Min(600, Max(180, 6 * tile.font_size))
            /\ 180 <= tile.spacing_x /\ tile.spacing_x <= 600
            /\ tile.font_size = 40 => tile.spacing_x = 240
            /\ tile.font_size = 200 => tile.spacing_x = 600
        /\ IsNone(tile.given_y) =>
            /\ tile.spacing_y = Min(400, Max(120, 3 * tile.font_size))
            /\ 120 <= tile.spacing_y /\ tile.spacing_y <= 400
            /\ tile.font_size = 40 => tile.spacing_y = 120
            /\ tile.font_size = 200 => tile.spacing_y = 400
        /\ ~IsNone(tile.given_x) => tile.spacing_x = tile.given_x[1]
        /\ ~IsNone(tile.given_y) => tile.spacing_y = tile.given_y[1]

\* Font size 200 with no spacing given, and one axis given with the other
\* left to its default.
C9_Witness ==
    /\ tpc = "done"
    /\ tile.font_size = 200
    /\ IsNone(tile.given_x) /\ ~IsNone(tile.given_y)
    /\ tile.spacing_x = 600 /\ tile.spacing_y = 421

TimesDrawn(pt) == Cardinality({ k \in 1..Len(drawn) : drawn[k].at = pt })

\* C10: when the loop is over, the text was drawn exactly once at every
\* grid point (i*spacing_x, j*spacing_y) with 0 <= x < width and
\* 0 <= y < height and nowhere else, each about its own grid point, for
\* every page size and positive spacing.
C10_EveryGridPointOnce ==
    (tpc = "done" /\ tile.spacing_x > 0 /\ tile.spacing_y > 0) =>
        /\ \A i \in 0..(IntPart(tile.page_size[1]) \div tile.spacing_x + 1),
              j \in 0..(IntPart(tile.page_size[2]) \div tile.spacing_y + 1) :
            LET x == i * tile.spacing_x
                y == j * tile.spacing_y IN
            TimesDrawn(<<x, y>>) =
                IF x * 1000 < tile.page_size[1] /\ y * 1000 < tile.page_size[2]
                THEN 1 ELSE 0
        /\ \A k \in 1..Len(drawn) :
            /\ drawn[k].pivot = drawn[k].at
            /\ drawn[k].at[1] % tile.spacing_x = 0
            /\ drawn[k].at[2] % tile.spacing_y = 0


\* ------------------------------------------------ add_watermark_to_pdf
\* What is at a path: nothing, bytes that are no PDF, or a PDF document.
\* A page is its content, its size and the overlays merged onto it.
Absent == [kind |-> "absent", pages |-> << >>]
Garbage == [kind |-> "garbage", pages |-> << >>]
Pdf(pages) == [kind |-> "pdf", pages |-> pages]
Page(base, size) == [base |-> base, size |-> size, layers |-> << >>]

\* page.merge_page(watermark_page): the overlay's content goes on top; the
\* page keeps its own size.
merge_page(page, watermark_page) ==
    [page EXCEPT !.layers = Append(@, watermark_page.base)]

\* Mutant: the last page of the watermark document is taken.
WatermarkPageLast(watermark_reader) ==
    watermark_reader.pages[Len(watermark_reader.pages)]

\* line 336: watermark_reader.pages[0]
WatermarkPage(watermark_reader) == watermark_reader.pages[1]

\* lines 332-336: both documents are opened and the overlay page is taken.
BeginMerge(input_pdf, watermark_pdf) ==
    /\ merge' = [reader |-> input_pdf, watermark_reader |-> watermark_pdf,
                 writer |-> << >>, i |-> 1, out |-> Absent]
    /\ mpc' = IF input_pdf.kind # "pdf" \/ watermark_pdf.kind # "pdf" THEN "raised"
              ELSE IF Len(watermark_pdf.pages) = 0 THEN "raised"     \* IndexError
              ELSE "loop"

\* lines 338-340: one turn of the loop over reader.pages
MergeStep ==
    /\ mpc = "loop"
    /\ IF merge.i <= Len(merge.reader.pages)
       THEN /\ merge' = [merge EXCEPT
                    !.writer = Append(@, merge_page(merge.reader.pages[merge.i],
                                                    WatermarkPage(merge.watermark_reader))),
                    !.i = @ + 1]
            /\ mpc' = "loop"
       ELSE /\ mpc' = "write"
            /\ UNCHANGED merge
    /\ UNCHANGED <<fontVars, stderr, tileVars, cliVars>>

\* lines 342-343, for a caller that is not one of the commands: the output
\* document is what the writer holds, or open() fails.
WriteMerged ==
    /\ mpc = "write"
    /\ pc = "lib"
    /\ \E ok \in BOOLEAN :
        IF ok THEN mpc' = "done" /\ merge' = [merge EXCEPT !.out = Pdf(merge.writer)]
        ELSE mpc' = "raised" /\ UNCHANGED merge
    /\ UNCHANGED <<fontVars, stderr, tileVars, cliVars>>

SourcePages == { Page("a", Letter), Page("b", A4), Page("c", Slide) }

\* the documents of up to n pages over a set of pages
RECURSIVE DocsUpTo(_, _)
DocsUpTo(pages, n) ==
    IF n = 0 THEN { << >> }
    ELSE LET shorter == DocsUpTo(pages, n - 1) IN
         shorter \cup { Append(d, p) : d \in { e \in shorter : Len(e) = n - 1 }, p \in pages }

SourceDocs == { Pdf(d) : d \in DocsUpTo(SourcePages, MaxPages) }

WatermarkDocs ==
    { Pdf(SubSeq(<<Page("w1", Letter), Page("w2", Letter), Page("w3", A4)>>, 1, n)) :
        n \in 0..MaxWatermarkPages }

MergeInit ==
    /\ mpc = "idle"
    /\ merge = [reader |-> Absent, watermark_reader |-> Absent,
                writer |-> << >>, i |-> 1, out |-> Absent]

\* A client of the module calls add_watermark_to_pdf.
AddWatermarkToPdf ==
    /\ mpc = "idle"
    /\ pc = "lib"
    /\ \E input_pdf \in SourceDocs \cup {Absent, Garbage},
          watermark_pdf \in WatermarkDocs \cup {Absent} :
        BeginMerge(input_pdf, watermark_pdf)
    /\ UNCHANGED <<fontVars, stderr, tileVars, cliVars>>

\* C1: for a source of N >= 0 pages and a watermark document of at least one
\* page, the document written has N pages, the i-th being the i-th source
\* page with the first watermark page merged onto it.
C1_EveryPageGetsFirstWatermarkPage ==
    mpc = "done" =>
        LET src == merge.reader.pages
            out == merge.out.pages IN
        /\ Len(merge.watermark_reader.pages) >= 1
        /\ merge.out.kind = "pdf"
        /\ Len(out) = Len(src)
        /\ \A i \in 1..Len(src) :
            /\ out[i].base = src[i].base
            /\ out[i].size = src[i].size
            /\ out[i].layers = src[i].layers \o << merge.watermark_reader.pages[1].base >>

\* A source of several different pages and a watermark document of several.
C1_Witness ==
    /\ mpc = "done"
    /\ Len(merge.reader.pages) >= 2
    /\ merge.reader.pages[1] # merge.reader.pages[2]
    /\ Len(merge.watermark_reader.pages) >= 2

\* --------------------------------------------- the command-line entry points
\* The files the commands touch.  temp_watermark.pdf lies beside the input
\* PDF; TMP is the TemporaryDirectory of convert_with_watermark.
Paths == { "deck.pptx", "deck.pdf", "outdir/deck.pdf", "out.pdf",
           "temp_watermark.pdf", "TMP/deck.pdf", "TMP/watermark.pdf" }
TempDirFiles == { "TMP/deck.pdf", "TMP/watermark.pdf" }

Programs == { "ppt_to_pdf", "add_watermark", "convert_with_watermark" }

\* What argparse makes of the command line: it parses, it is rejected (a
\* required argument is missing, an option is unknown, a number is no
\* number), or -h was given.
ParseOutcomes == { "ok", "error", "help" }

CliTexts == { << >>, <<72, 105>>, <<72, 20013>> }
CliSpacings == { << << >>, << >> >>, << <<0>>, << >> >>, << <<400>>, <<0>> >> }
CliFontPaths == { NoPath, P("/home/u/fonts", <<"My", "Font">>, ".ttf") }
InputContents ==
    { Absent, Garbage, Pdf(<< >>), Pdf(<<Page("a", Letter)>>),
      Pdf(<<Page("b", A4)>>), Pdf(<<Page("b", A4), Page("a", Letter)>>) }
OldOutput == Pdf(<<Page("old", Letter)>>)

\* The input_pdf and --output of add_watermark.py, as <<input, output>>: the
\* user may name the same file twice, or a file called temp_watermark.pdf
\* in the input's directory.
WatermarkPaths ==
    { <<"deck.pdf", "out.pdf">>, <<"deck.pdf", "deck.pdf">>,
      <<"deck.pdf", "temp_watermark.pdf">>, <<"temp_watermark.pdf", "out.pdf">> }
ConvertedDocs == { Pdf(<< >>), Pdf(<<Page("s", Slide)>>), Pdf(<<Page("b", A4), Page("b", A4)>>) }
ConverterOutcomes == { "launch", "timeout", "nonzero", "no_pdf", "ok" }

NoArgs ==
    [prog |-> None, parse |-> None, input |-> "", output |-> "", text |-> << >>,
     image |-> FALSE, tiled |-> FALSE, font_path |-> NoPath, font_size |-> 40,
     spacing_x |-> << >>, spacing_y |-> << >>]

Running == 0 - 1

CliInit ==
    /\ pc = "start"
    /\ args = NoArgs
    /\ disk = [p \in Paths |-> Absent]
    /\ proc = [exit |-> Running, stdout |-> << >>, io |-> << >>, tmpdir |-> FALSE,
               page_size |-> Letter, font_path_missing |-> FALSE,
               disk0 |-> [p \in Paths |-> Absent]]

Line(level, text) == [level |-> level, text |-> text]
IO(op, path) == [op |-> op, path |-> path]

\* sys.exit(1) in the except clauses and after the --text/--image test
ExitCodeOnError == 1
\* parser.error(): argparse prints the usage and the error and exits with 2
ArgparseErrorExit == 2

\* Mutant: the except clause prints the error and forgets sys.exit(1).
ExitCodeForgotten == ExitCodeOnError - 1

\* The status an entry point ends with when it caught an exception.
FailureExit == ExitCodeOnError

\* parse_args() ends the process itself on a rejected command line or -h.
ArgparseExit(prog, parse) ==
    /\ args' = [NoArgs EXCEPT !.prog = prog, !.parse = parse]
    /\ pc' = "exit"
    /\ IF parse = "error"
       THEN /\ stderr' = stderr \o << Line("usage", "usage"), Line("error", "argparse") >>
            /\ proc' = [proc EXCEPT !.exit = ArgparseErrorExit]
       ELSE /\ proc' = [proc EXCEPT !.exit = 0, !.stdout = Append(@, "help")]
            /\ UNCHANGED stderr
    /\ UNCHANGED disk

\* What the with-block of convert_with_watermark leaves when it is left:
\* the temporary directory and the files in it are removed.
RemoveTempDir(d) == [p \in Paths |-> IF p \in TempDirFiles THEN Absent ELSE d[p]]

\* An exception reaches `except Exception` in main: one line on stderr and
\* sys.exit(1).  In convert_with_watermark the with-block is left first.
FailRun(msg, d, pr) ==
    /\ stderr' = Append(stderr, Line("Error", msg))
    /\ disk' = IF args.prog = "convert_with_watermark" THEN RemoveTempDir(d) ELSE d
    /\ proc' = [pr EXCEPT !.exit = FailureExit, !.tmpdir = FALSE]
    /\ pc' = "exit"

\* ppt_to_pdf.py main, lines 55-59
RunConvert ==
    /\ pc = "start"
    /\ \E parse \in ParseOutcomes :
        IF parse = "ok"
        THEN \E output_dir \in {"", "outdir"}, src \in {Absent, Garbage} :
            /\ args' = [NoArgs EXCEPT !.prog = "ppt_to_pdf", !.parse = parse,
                                       !.input = "deck.pptx", !.output = output_dir]
            /\ disk' = [disk EXCEPT !["deck.pptx"] = src]
            /\ proc' = [proc EXCEPT !.disk0 = [disk EXCEPT !["deck.pptx"] = src]]
            /\ pc' = "convert"
            /\ UNCHANGED stderr
        ELSE ArgparseExit("ppt_to_pdf", parse)
    /\ UNCHANGED <<fontVars, tileVars, mergeVars>>

\* add_watermark.py main, lines 346-359
RunWatermark ==
    /\ pc = "start"
    /\ \E parse \in ParseOutcomes :
        IF parse = "ok"
        THEN \E text \in CliTexts, image \in BOOLEAN, tiled \in BOOLEAN,
                font_path \in CliFontPaths, spacing \in CliSpacings,
                src \in InputContents, old \in {Absent, OldOutput},
                io \in WatermarkPaths :
            LET d == [p \in Paths |-> IF p = io[1] THEN src
                                      ELSE IF p = io[2] THEN old ELSE disk[p]] IN
            /\ args' = [NoArgs EXCEPT !.prog = "add_watermark", !.parse = parse,
                            !.input = io[1], !.output = io[2],
                            !.text = text, !.image = image, !.tiled = tiled,
                            !.font_path = font_path,
                            !.spacing_x = spacing[1], !.spacing_y = spacing[2]]
            /\ disk' = d
            /\ proc' = [proc EXCEPT !.disk0 = d]
            /\ pc' = "check"
            /\ UNCHANGED stderr
        ELSE ArgparseExit("add_watermark", parse)
    /\ UNCHANGED <<fontVars, tileVars, mergeVars>>

\* convert_with_watermark.py main, lines 18-30 (there is no --font-path)
RunConvertWithWatermark ==
    /\ pc = "start"
    /\ \E parse \in ParseOutcomes :
        IF parse = "ok"
        THEN \E text \in CliTexts, image \in BOOLEAN, tiled \in BOOLEAN,
                spacing \in CliSpacings, src \in {Absent, Garbage},
                old \in {Absent, OldOutput} :
            LET d == [disk EXCEPT !["deck.pptx"] = src, !["out.pdf"] = old] IN
            /\ args' = [NoArgs EXCEPT !.prog = "convert_with_watermark", !.parse = parse,
                            !.input = "deck.pptx", !.output = "out.pdf",
                            !.text = text, !.image = image, !.tiled = tiled,
                            !.spacing_x = spacing[1], !.spacing_y = spacing[2]]
            /\ disk' = d
            /\ proc' = [proc EXCEPT !.disk0 = d]
            /\ pc' = "check"
            /\ UNCHANGED stderr
        ELSE ArgparseExit("convert_with_watermark", parse)
    /\ UNCHANGED <<fontVars, tileVars, mergeVars>>

\* `if not args.text and not args.image`: add_watermark.py 361-363,
\* convert_with_watermark.py 32-34
CheckTextOrImage ==
    /\ pc = "check"
    /\ IF args.text = << >> /\ ~args.image
       THEN /\ stderr' = Append(stderr, Line("Error", "Must specify either --text or --image"))
            /\ proc' = [proc EXCEPT !.exit = ExitCodeOnError]
            /\ pc' = "exit"
       ELSE /\ pc' = IF args.prog = "add_watermark" THEN "render" ELSE "convert"
            /\ UNCHANGED <<stderr, proc>>
    /\ UNCHANGED <<args, disk, fontVars, tileVars, mergeVars>>

\* Where convert_ppt_to_pdf puts the PDF: <output dir>/<stem>.pdf
ConvertedPath ==
    IF args.prog = "convert_with_watermark" THEN "TMP/deck.pdf"
    ELSE IF args.output = "" THEN "deck.pdf" ELSE "outdir/deck.pdf"

ConverterError(outcome) ==
    IF outcome = "timeout" THEN "LibreOffice conversion timed out"
    ELSE IF outcome = "nonzero" THEN "Conversion error: LibreOffice conversion failed"
    ELSE IF outcome = "no_pdf" THEN "Conversion error: Expected PDF not created"
    ELSE "Conversion error: libreoffice cannot be started"

\* convert_ppt_to_pdf (ppt_to_pdf.py 13-52), called by ppt_to_pdf.py main
\* line 62 and, inside the temporary directory, by convert_with_watermark.py
\* lines 38-42.  The converter is an external process: it cannot be started,
\* runs into the 300 s timeout, returns non-zero, returns zero without the
\* PDF, or writes the PDF.
Convert ==
    /\ pc = "convert"
    /\ LET pr == [proc EXCEPT !.tmpdir = (args.prog = "convert_with_watermark"),
                              !.io = Append(@, IO("stat", args.input))] IN
       IF disk[args.input].kind = "absent"
       THEN FailRun("Input file not found", disk, pr)
       ELSE \E outcome \in ConverterOutcomes :
            IF outcome = "ok"
            THEN \E doc \in ConvertedDocs :
                /\ disk' = [disk EXCEPT ![ConvertedPath] = doc]
                /\ proc' = [pr EXCEPT !.io = Append(@, IO("convert", ConvertedPath))]
                /\ pc' = IF args.prog = "ppt_to_pdf" THEN "success" ELSE "render"
                /\ UNCHANGED stderr
            ELSE FailRun(ConverterError(outcome), disk, pr)
    /\ UNCHANGED <<args, fontVars, tileVars, mergeVars>>

\* The document that gets the watermark, and the overlay file.
TargetPath == IF args.prog = "add_watermark" THEN args.input ELSE "TMP/deck.pdf"
OverlayPath == IF args.prog = "add_watermark" THEN "temp_watermark.pdf" ELSE "TMP/watermark.pdf"

\* The page_size the create_* function is called with.  add_watermark.py
\* passes none (lines 371-389), so the default (612, 792) is used;
\* convert_with_watermark.py reads it from the first page of the converted
\* PDF in text mode (lines 50-57) and passes none in image mode (line 79).
OverlayPageSize(target) ==
    IF args.prog = "convert_with_watermark" /\ args.text # << >> /\ Len(target.pages) > 0
    THEN target.pages[1].size
    ELSE Letter

\* The start of the create_* call: the canvas is made (nothing is written
\* before c.save()) and the font is asked for.
Render ==
    /\ pc = "render"
    /\ LET reads == args.prog = "convert_with_watermark" /\ args.text # << >>
           target == disk[TargetPath]
           pr == IF reads THEN [proc EXCEPT !.io = Append(@, IO("read", TargetPath))] ELSE proc IN
       IF reads /\ target.kind # "pdf"
       THEN /\ FailRun("cannot read the converted PDF", disk, pr)
            /\ UNCHANGED fontVars
       ELSE /\ proc' = [pr EXCEPT !.page_size = OverlayPageSize(target)]
            /\ pc' = "font"
            /\ IF args.text # << >>
               THEN BeginFontCall("_font_for_text", args.text, args.font_path)
               ELSE BeginFontCall("_resolve_cjk_font", << >>, NoPath)
            /\ UNCHANGED <<stderr, disk>>
    /\ UNCHANGED <<args, tileVars, mergeVars>>

\* Mutant: a font error is swallowed and rendering goes on.
AfterFontSwallowed(kind, tiled) == IF tiled THEN "tile" ELSE "save"

\* Where create_* goes on after the font call: the exception leaves it,
\* create_tiled_watermark enters its loop, the others draw once and save.
AfterFont(kind, tiled) ==
    IF kind = "raise" THEN "except" ELSE IF tiled THEN "tile" ELSE "save"

RECURSIVE JoinMsg(_)
JoinMsg(parts) ==
    IF Len(parts) = 0 THEN ""
    ELSE IF Len(parts) = 1 THEN parts[1]
    ELSE parts[1] \o " " \o JoinMsg(Tail(parts))

\* The font call has returned or raised.
FontReturn ==
    /\ pc = "font"
    /\ fpc = "done"
    /\ LET next == AfterFont(fresult.kind, args.text # << >> /\ args.tiled)
           pr == [proc EXCEPT !.font_path_missing =
                       /\ Len(consulted) > 0
                       /\ consulted[1].src = "override"
                       /\ consulted[1].status = "missing"] IN
       /\ IF next = "except"
          THEN /\ FailRun(JoinMsg(fresult.msg), disk, pr)
               /\ UNCHANGED tileVars
          ELSE /\ proc' = pr
               /\ pc' = next
               /\ IF next = "tile"
                  THEN BeginTiled(proc.page_size, args.font_size, args.spacing_x, args.spacing_y)
                  ELSE UNCHANGED tileVars
               /\ UNCHANGED <<stderr, disk>>
    /\ fpc' = "idle"
    /\ fcall' = [fn |-> None, text |-> << >>, override |-> NoPath, require_cjk |-> FALSE]
    /\ cand_i' = 1
    /\ warnings' = << >>
    /\ consulted' = << >>
    /\ fresult' = Pending
    /\ UNCHANGED <<platform, environ, registered, ncalls, args, mergeVars>>

\* The tiling loops are over, or range() refused a zero step.
TileReturn ==
    /\ pc = "tile"
    /\ tpc \in {"save", "raised"}
    /\ IF tpc = "raised"
       THEN FailRun("range() arg 3 must not be zero", disk, proc)
       ELSE pc' = "save" /\ UNCHANGED <<stderr, disk, proc>>
    /\ tpc' = "idle"
    /\ tile' = [page_size |-> Letter, font_size |-> 40, given_x |-> << >>, given_y |-> << >>,
                spacing_x |-> 0, spacing_y |-> 0, x |-> 0, y |-> 0]
    /\ drawn' = << >>
    /\ UNCHANGED <<args, fontVars, mergeVars>>

\* c.save(): the one-page overlay is written, or the file cannot be written.
SaveOverlay ==
    /\ pc = "save"
    /\ \E ok \in BOOLEAN :
        LET pr == [proc EXCEPT !.io = Append(@, IO("write", OverlayPath))] IN
        IF ok
        THEN /\ disk' = [disk EXCEPT ![OverlayPath] = Pdf(<<Page("wm", proc.page_size)>>)]
             /\ proc' = pr
             /\ pc' = "compose"
             /\ UNCHANGED stderr
        ELSE FailRun("cannot write the watermark PDF", disk, pr)
    /\ UNCHANGED <<args, fontVars, tileVars, mergeVars>>

\* add_watermark_to_pdf is called: add_watermark.py 392,
\* convert_with_watermark.py 82.
Compose ==
    /\ pc = "compose"
    /\ BeginMerge(disk[TargetPath], disk[OverlayPath])
    /\ proc' = [proc EXCEPT !.io = @ \o << IO("read", TargetPath) >>
                    \o (IF disk[TargetPath].kind = "pdf"
                        THEN << IO("read", OverlayPath) >> ELSE << >>)]
    /\ pc' = "merging"
    /\ UNCHANGED <<args, disk, stderr, fontVars, tileVars>>

\* add_watermark_to_pdf raised while reading, or its loop is over and it
\* writes the output (lines 342-343), which may fail.
MergeReturn ==
    /\ pc = "merging"
    /\ mpc \in {"write", "raised"}
    /\ IF mpc = "raised"
       THEN FailRun("cannot read the PDF", disk, proc)
       ELSE \E ok \in BOOLEAN :
            LET pr == [proc EXCEPT !.io = Append(@, IO("write", args.output))] IN
            IF ok
            THEN /\ disk' = [disk EXCEPT ![args.output] = Pdf(merge.writer)]
                 /\ proc' = pr
                 /\ pc' = IF args.prog = "add_watermark" THEN "unlink" ELSE "leave"
                 /\ UNCHANGED stderr
            ELSE FailRun("cannot write the output PDF", disk, pr)
    /\ mpc' = "idle"
    /\ merge' = [reader |-> Absent, watermark_reader |-> Absent,
                 writer |-> << >>, i |-> 1, out |-> Absent]
    /\ UNCHANGED <<args, fontVars, tileVars>>

\* add_watermark.py line 395: temp_watermark.unlink()
UnlinkTemp ==
    /\ pc = "unlink"
    /\ disk' = [disk EXCEPT ![OverlayPath] = Absent]
    /\ proc' = [proc EXCEPT !.io = Append(@, IO("unlink", OverlayPath))]
    /\ pc' = "success"
    /\ UNCHANGED <<args, stderr, fontVars, tileVars, mergeVars>>

\* convert_with_watermark.py: the with-block (line 38) is left normally.
LeaveTempDir ==
    /\ pc = "leave"
    /\ disk' = RemoveTempDir(disk)
    /\ proc' = [proc EXCEPT !.tmpdir = FALSE]
    /\ pc' = "success"
    /\ UNCHANGED <<args, stderr, fontVars, tileVars, mergeVars>>

\* The success message: ppt_to_pdf.py 63, add_watermark.py 397,
\* convert_with_watermark.py 84.  main returns and the status is 0.
PrintSuccess ==
    /\ pc = "success"
    /\ proc' = [proc EXCEPT !.exit = 0, !.stdout = Append(@, "Successfully")]
    /\ pc' = "exit"
    /\ UNCHANGED <<args, disk, stderr, fontVars, tileVars, mergeVars>>

Init == FontInit /\ TileInit /\ MergeInit /\ CliInit

Next ==
    \/ RunConvert \/ RunWatermark \/ RunConvertWithWatermark
    \/ CheckTextOrImage \/ Convert \/ Render
    \/ TryOverride \/ TryEnv \/ TryCandidate \/ ScanAndFinish \/ FontReturn
    \/ OuterStep \/ InnerStep \/ TileReturn
    \/ SaveOverlay \/ Compose \/ MergeStep \/ MergeReturn
    \/ UnlinkTemp \/ LeaveTempDir \/ PrintSuccess

Spec == Init /\ [][Next]_vars

\* ----------------------------------------------- entry points: claims
ErrorLines == { i \in 1..Len(stderr) : stderr[i].level = "Error" }

\* What a run that went through every step has done to the files, in order.
FullRunIO ==
    IF args.prog = "ppt_to_pdf"
    THEN << IO("stat", "deck.pptx"), IO("convert", ConvertedPath) >>
    ELSE IF args.prog = "add_watermark"
    THEN << IO("write", OverlayPath), IO("read", args.input),
            IO("read", OverlayPath), IO("write", args.output),
            IO("unlink", OverlayPath) >>
    ELSE << IO("stat", "deck.pptx"), IO("convert", "TMP/deck.pdf") >>
         \o (IF args.text # << >> THEN << IO("read", "TMP/deck.pdf") >> ELSE << >>)
         \o << IO("write", "TMP/watermark.pdf"), IO("read", "TMP/deck.pdf"),
               IO("read", "TMP/watermark.pdf"), IO("write", args.output) >>

SucceededRun ==
    /\ proc.exit = 0
    /\ proc.stdout = << "Successfully" >>
    /\ ErrorLines = {}
    /\ proc.io = FullRunIO

FailedRun ==
    /\ proc.exit = 1
    /\ proc.stdout = << >>
    /\ ErrorLines = { Len(stderr) }

C6_NoIntermediateLeft ==
    (pc = "exit" /\ args.prog \in {"add_watermark", "convert_with_watermark"}) =>
        /\ disk["temp_watermark.pdf"] = Absent
        /\ \A p \in TempDirFiles : disk[p] = Absent
        /\ ~proc.tmpdir

\* C7: in add_watermark, a --font-path that names no file ends the run with
\* status 1 before any document I/O: nothing was read, the overlay file was
\* not created, the output was neither created nor changed.  The font is
\* asked for before anything is read or written, in centered and in tiled
\* mode.
C7_MissingFontPathFailsBeforeIO ==
    /\ proc.font_path_missing =>
        /\ pc = "exit"
        /\ proc.exit = 1
        /\ proc.io = << >>
        /\ disk = proc.disk0
    /\ (args.prog = "add_watermark" /\ pc \in {"check", "render", "font"}) =>
        /\ proc.io = << >>
        /\ disk = proc.disk0

\* A tiled run with a missing --font-path and an output that existed before.
C7_Witness ==
    /\ proc.font_path_missing
    /\ args.tiled
    /\ args.font_path # NoPath
    /\ proc.disk0["out.pdf"] = OldOutput
    /\ proc.disk0["deck.pdf"].kind = "pdf"

\* C8: the overlay that is rendered and merged has exactly one page, of the
\* width and height of the target document's first page.
C8_OverlayMatchesTarget ==
    (pc = "merging" /\ mpc = "loop") =>
        /\ Len(merge.watermark_reader.pages) = 1
        /\ Len(merge.reader.pages) >= 1 =>
            merge.watermark_reader.pages[1].size = merge.reader.pages[1].size

\* C11: when add_watermark has printed its success message and ended with
\* status 0, the file at --output holds the watermarked document (the pages
\* the input had before the run, in order, each with the overlay merged onto
\* it) and the input file holds what it held before the run, whatever the
\* input and output paths are.
C11_SuccessMeansOutputAndInputIntact ==
    (pc = "exit" /\ args.prog = "add_watermark" /\ args.parse = "ok"
        /\ proc.exit = 0 /\ proc.stdout = << "Successfully" >>) =>
        LET before == proc.disk0[args.input]
            out == disk[args.output] IN
        /\ out.kind = "pdf"
        /\ Len(out.pages) = Len(before.pages)
        /\ \A i \in 1..Len(before.pages) :
            out.pages[i] = [before.pages[i] EXCEPT !.layers = Append(@, "wm")]
        /\ disk[args.input] = before

\* ------------------------------------------------------ specifications
\* The module used as a library: no command is running.
LibInit ==
    /\ pc = "lib"
    /\ args = << >>
    /\ disk = << >>
    /\ proc = << >>

\* Nothing but the font resolver looks at the platform and the environment.
InitLib == FontInit /\ TileInit /\ MergeInit /\ LibInit
InitNoFonts == InitLib /\ platform = "linux" /\ environ = NoPath

NextTile == CreateTiled \/ OuterStep \/ InnerStep \/ SaveTiled

SpecTile == InitNoFonts /\ [][NextTile]_vars

NextFont == FontForText \/ TryOverride \/ TryEnv \/ TryCandidate \/ ScanAndFinish

SpecFont == InitLib /\ [][NextFont]_vars

NextMerge == AddWatermarkToPdf \/ MergeStep \/ WriteMerged

SpecMerge == InitNoFonts /\ [][NextMerge]_vars
=============================================================================
